---- MODULE Spec2Model ----
(***************************************************************************)
(* Model of src/index.js (contentful-resolve-response): resolveResponse    *)
(* over an explicit object heap.                                           *)
(*                                                                         *)
(* A JavaScript object has an identity, so every object and array lives at *)
(* an address of `heap'; a value is a primitive or a reference to an       *)
(* address.  Strings are sequences of tokens, tokenised at the separator   *)
(* characters the code inspects ("/", ":" and "!"), so that the URN regular*)
(* expression, linkType.split(':') and the template-literal keys are       *)
(* computed rather than assumed.                                           *)
(***************************************************************************)
EXTENDS Integers, Sequences, FiniteSets, TLC

VARIABLES heap, orig, response, options, pc, call, responseClone, allEntries,
          entityMap, idx, item, entryObject, stack, result, firstResult

vars == <<heap, orig, response, options, pc, call, responseClone, allEntries,
          entityMap, idx, item, entryObject, stack, result, firstResult>>

(***************************************************************************)
(* Bounds of the model                                                     *)
(***************************************************************************)
\* call-stack limit of the JavaScript engine (frames of walkMutate)
MaxStack == 14
\* number of elements of the array field `list' of the first item
ListLen == 3

(***************************************************************************)
(* Values and objects                                                      *)
(***************************************************************************)
Str(s) == [t |-> "str", s |-> s, a |-> 0]
S(x) == Str(<<x>>)
Num(s) == [t |-> "num", s |-> s, a |-> 0]
Undef == [t |-> "undef", s |-> <<>>, a |-> 0]
Ref(a) == [t |-> "ref", s |-> <<>>, a |-> a]

NoKeys == [k \in {} |-> Undef]
Obj(f) == [kind |-> "obj", f |-> f, e |-> <<>>]
Arr(e) == [kind |-> "arr", f |-> NoKeys, e |-> e]

\* const UNRESOLVED_LINK = {} : one object, recognised by identity
SentinelAddr == 0
UNRESOLVED_LINK == Ref(SentinelAddr)

\* JavaScript truthiness of a value
Truthy(v) ==
  CASE v.t = "ref" -> TRUE
    [] v.t = "str" -> v.s # <<>>
    [] v.t = "num" -> v.s # <<"0">>
    [] OTHER -> FALSE

\* `${v}` in a template literal
ToStr(v) ==
  CASE v.t = "str" -> v.s
    [] v.t = "num" -> v.s
    [] v.t = "undef" -> <<"undefined">>
    [] OTHER -> <<"[object Object]">>

\* v?.k : own property k of the object v refers to, undefined otherwise
Get(h, v, k) ==
  IF v.t = "ref" /\ v.a \in DOMAIN h /\ k \in DOMAIN h[v.a].f
  THEN h[v.a].f[k]
  ELSE Undef

IsObject(h, v) == v.t = "ref" /\ v.a \in DOMAIN h

\* enumeration order of for...in / Object.values: the insertion order of the
\* keys, which for every object of the model follows this one order
KeyOrder ==
  <<"items", "includes", "Entry", "sys", "fields", "metadata", "top", "nope",
    "type", "linkType", "id", "urn", "space", "environment",
    "ref", "list", "m", "n", "title">>

OwnKeys(o) == SelectSeq(KeyOrder, LAMBDA k : k \in DOMAIN o.f)

\* the element of a one-element set; The({e(x) : x \in {v}}) evaluates v once
The(set) == CHOOSE x \in set : TRUE

Max(set) == CHOOSE m \in set : \A n \in set : n <= m

RefsOf(o) ==
  {o.f[k].a : k \in {k \in DOMAIN o.f : o.f[k].t = "ref"}}
    \cup {o.e[i].a : i \in {i \in DOMAIN o.e : o.e[i].t = "ref"}}

RECURSIVE Reach(_, _)
Reach(h, R) ==
  The({IF N = R THEN R ELSE Reach(h, N) :
         N \in {R \cup ((UNION {RefsOf(h[a]) : a \in R}) \cap DOMAIN h)}})

(***************************************************************************)
(* Reference Classifier                                                    *)
(***************************************************************************)
isLink(h, v) == Get(h, Get(h, v, "sys"), "type") = S("Link")

isResourceLink(h, v) == Get(h, Get(h, v, "sys"), "type") = S("ResourceLink")

\* (x) => isLink(x) || isResourceLink(x)
predicate(h, v) == isLink(h, v) \/ isResourceLink(h, v)

(***************************************************************************)
(* Identity Keying                                                         *)
(***************************************************************************)
RECURSIVE BangFrom(_, _)
BangFrom(parts, i) ==
  IF i > Len(parts) THEN <<>>
  ELSE IF i = Len(parts) THEN parts[i]
  ELSE parts[i] \o <<"!">> \o BangFrom(parts, i + 1)

\* `${a}!${b}...`
Bang(parts) == The({BangFrom(p, 1) : p \in {parts}})

makeEntityMapKeys(h, sys) ==
  LET spaceSys == Get(h, Get(h, sys, "space"), "sys")
      envSys == Get(h, Get(h, sys, "environment"), "sys")
      global == Bang(<<ToStr(Get(h, sys, "type")), ToStr(Get(h, sys, "id"))>>)
  IN  IF Truthy(spaceSys) /\ Truthy(envSys)
      THEN <<global,
             Bang(<<ToStr(Get(h, spaceSys, "id")), ToStr(Get(h, envSys, "id")),
                    ToStr(Get(h, sys, "type")), ToStr(Get(h, sys, "id"))>>)>>
      ELSE <<global>>

\* entityMap.get(key): undefined on a miss
MapGet(m, key) == IF key \in DOMAIN m THEN Ref(m[key]) ELSE Undef

\* variant: the scope of the link is ignored, every lookup uses the global key
lookupGlobalKeyOnly(m, entryId, linkType, spaceId, environmentId) ==
  MapGet(m, Bang(<<ToStr(linkType), ToStr(entryId)>>))

lookupInEntityMap(m, entryId, linkType, spaceId, environmentId) ==
  IF Truthy(spaceId) /\ Truthy(environmentId)
  THEN MapGet(m, Bang(<<ToStr(spaceId), ToStr(environmentId),
                        ToStr(linkType), ToStr(entryId)>>))
  ELSE MapGet(m, Bang(<<ToStr(linkType), ToStr(entryId)>>))

(***************************************************************************)
(* URN Decoder                                                             *)
(***************************************************************************)
\* the pieces of the token sequence s between occurrences of sep
SplitOn(s, sep) ==
  LET seps == {i \in 1..Len(s) : s[i] = sep}
      n == Cardinality(seps) + 1
      Nth(j) == CHOOSE i \in seps : Cardinality({k \in seps : k < i}) = j - 1
      From(j) == IF j = 1 THEN 1 ELSE Nth(j - 1) + 1
      To(j) == IF j = n THEN Len(s) ELSE Nth(j) - 1
  IN  [j \in 1..n |-> SubSeq(s, From(j), To(j))]

EndsWithColonSpaces(seg) ==
  Len(seg) >= 2 /\ seg[Len(seg) - 1] = ":" /\ seg[Len(seg)] = "spaces"

NoIds == [ok |-> FALSE, spaceId |-> Undef, environmentId |-> Undef, entryId |-> Undef]

\* /^(.*):spaces\/([^/]+)(?:\/environments\/([^/]+))?\/entries\/([^/]+)$/
\* a non-string urn makes urn.match throw inside the try block
IdsOfSegments(segs) ==
    LET n == Len(segs)
        short == /\ n >= 4
                 /\ EndsWithColonSpaces(segs[n - 3])
                 /\ segs[n - 2] # <<>>
                 /\ segs[n - 1] = <<"entries">>
                 /\ segs[n] # <<>>
        long == /\ n >= 6
                /\ EndsWithColonSpaces(segs[n - 5])
                /\ segs[n - 4] # <<>>
                /\ segs[n - 3] = <<"environments">>
                /\ segs[n - 2] # <<>>
                /\ segs[n - 1] = <<"entries">>
                /\ segs[n] # <<>>
    IN  IF short
        THEN [ok |-> TRUE, spaceId |-> Str(segs[n - 2]),
              environmentId |-> S("master"), entryId |-> Str(segs[n])]
        ELSE IF long
        THEN [ok |-> TRUE, spaceId |-> Str(segs[n - 4]),
              environmentId |-> Str(segs[n - 2]), entryId |-> Str(segs[n])]
        ELSE NoIds

getIdsFromUrn(urn) ==
  IF urn.t # "str" THEN NoIds
  ELSE The({IdsOfSegments(segs) : segs \in {SplitOn(urn.s, "/")}})

(***************************************************************************)
(* Link Resolver                                                           *)
(***************************************************************************)
\* variant: a lookup that misses is passed on as undefined
OrUndefined(v) == v

\* <lookup> || UNRESOLVED_LINK
OrUnresolved(v) == IF Truthy(v) THEN v ELSE UNRESOLVED_LINK

\* linkType.split(':')[1]
SecondOfSplit(linkType) ==
  LET parts == SplitOn(linkType.s, ":")
  IN  IF Len(parts) >= 2 THEN Str(parts[2]) ELSE Undef

\* result [threw, v]: threw when linkType.split is called on a non-string
ResolvedResource(m, ids, linkType) ==
  IF ~ids.ok THEN [threw |-> FALSE, v |-> UNRESOLVED_LINK]
  ELSE IF linkType.t # "str" THEN [threw |-> TRUE, v |-> Undef]
  ELSE [threw |-> FALSE,
        v |-> OrUnresolved(lookupInEntityMap(m, ids.entryId,
                SecondOfSplit(linkType), ids.spaceId, ids.environmentId))]

getResolvedLink(h, m, link) ==
  LET sys == Get(h, link, "sys")
      type == Get(h, sys, "type")
      linkType == Get(h, sys, "linkType")
  IN  IF type = S("ResourceLink")
      THEN The({ResolvedResource(m, ids, linkType) :
                  ids \in {getIdsFromUrn(Get(h, sys, "urn"))}})
      ELSE [threw |-> FALSE,
            v |-> OrUnresolved(lookupInEntityMap(m, Get(h, sys, "id"), linkType,
                                                 Undef, Undef))]

\* variant: the resolver's output is returned whatever removeUnresolved says
normalizeLinkAlwaysMarked(h, m, link, removeUnresolved) == getResolvedLink(h, m, link)

Normalized(r, link, removeUnresolved) ==
  IF r.threw THEN r
  ELSE IF r.v = UNRESOLVED_LINK
  THEN [threw |-> FALSE, v |-> IF removeUnresolved THEN r.v ELSE link]
  ELSE r

normalizeLink(h, m, link, removeUnresolved) ==
  The({Normalized(r, link, removeUnresolved) : r \in {getResolvedLink(h, m, link)}})

(***************************************************************************)
(* Heap operations of the collaborators and of the walker                  *)
(***************************************************************************)
Fresh(h) == Max(DOMAIN h) + 1

ShiftVal(v, off) == IF v.t = "ref" THEN Ref(v.a + off) ELSE v

ShiftObj(o, off) ==
  [kind |-> o.kind,
   f |-> [k \in DOMAIN o.f |-> ShiftVal(o.f[k], off)],
   e |-> [i \in DOMAIN o.e |-> ShiftVal(o.e[i], off)]]

\* copy(response) of fast-copy, by its contract: an independent clone of
\* everything reachable from root, preserving structure (sharing and cycles
\* included).  The clone of the object at address a lives at a + off.
\* variant: no clone is made, the walk works on the caller's objects
copyByReference(h, root) == [h |-> h, v |-> root]

CloneAt(h, root, R, off) ==
  [h |-> [x \in DOMAIN h \cup {a + off : a \in R} |->
            IF x \in DOMAIN h THEN h[x] ELSE ShiftObj(h[x - off], off)],
   v |-> Ref(root.a + off)]

copy(h, root) ==
  The({CloneAt(h, root, R, off) : R \in {Reach(h, {root.a})}, off \in {Fresh(h)}})

\* cleanUpLinks(input): Array.prototype.filter builds a new array, the
\* object branch deletes in place
cleanUpLinks(h, a) ==
  IF h[a].kind = "arr"
  THEN LET n == Fresh(h)
       IN  [h |-> h @@ (n :> Arr(SelectSeq(h[a].e, LAMBDA val : val # UNRESOLVED_LINK))),
            v |-> Ref(n)]
  ELSE [h |-> [h EXCEPT ![a].f =
                 [k \in {k \in DOMAIN h[a].f : h[a].f[k] # UNRESOLVED_LINK} |-> h[a].f[k]]],
        v |-> Ref(a)]

\* variant: itemEntryPoints is ignored, the whole record is the entry object
makeEntryObjectWhole(h, it, itemEntryPoints) == [h |-> h, v |-> it]

\* makeEntryObject(item, itemEntryPoints)
makeEntryObject(h, it, itemEntryPoints) ==
  IF ~itemEntryPoints.isArray
  THEN [h |-> h, v |-> it]
  ELSE LET n == Fresh(h)
           ks == {itemEntryPoints.names[i] : i \in DOMAIN itemEntryPoints.names}
                   \cap DOMAIN h[it.a].f
       IN  [h |-> h @@ (n :> Obj([k \in ks |-> h[it.a].f[k]])), v |-> Ref(n)]

\* Object.assign(target, source): own properties of source overwrite target's
ObjectAssign(h, target, source) ==
  IF ~IsObject(h, source) THEN h
  ELSE LET sf == h[source.a].f
           tf == h[target.a].f
       IN  [h EXCEPT ![target.a].f =
              [k \in DOMAIN tf \cup DOMAIN sf |-> IF k \in DOMAIN sf THEN sf[k] ELSE tf[k]]]

\* Object.values(includes || []).flat()
FlatValues(h, inc) ==
  IF ~IsObject(h, inc) THEN <<>>
  ELSE LET ks == OwnKeys(h[inc.a])
           RECURSIVE F(_)
           F(i) == IF i > Len(ks) THEN <<>>
                   ELSE LET v == h[inc.a].f[ks[i]]
                        IN  (IF IsObject(h, v) /\ h[v.a].kind = "arr"
                             THEN h[v.a].e ELSE <<v>>) \o F(i + 1)
       IN  F(1)

\* [...items, ...allIncludes].filter((entity) => Boolean(entity.sys))
AllEntriesOf(h, clone) ==
  LET items == Get(h, clone, "items")
      all == (IF IsObject(h, items) THEN h[items.a].e ELSE <<>>)
               \o FlatValues(h, Get(h, clone, "includes"))
  IN  SelectSeq(all, LAMBDA entity : Truthy(Get(h, entity, "sys")))

\* variant: the first pair with a key is kept
MapSetKeepFirst(m, key, a) ==
  [x \in DOMAIN m \cup {key} |-> IF x \in DOMAIN m THEN m[x] ELSE a]

\* new Map(pairs): a later pair with the same key replaces the earlier one
MapSet(m, key, a) == [x \in DOMAIN m \cup {key} |-> IF x = key THEN a ELSE m[x]]

EmptyMap == [k \in {} |-> 0]

\* new Map(allEntries.flatMap((entity) => makeEntityMapKeys(entity.sys).map((key) => [key, entity])))
RECURSIVE SetKeys(_, _, _, _)
SetKeys(m, ks, j, a) ==
  IF j > Len(ks) THEN m
  ELSE The({SetKeys(m2, ks, j + 1, a) : m2 \in {MapSet(m, ks[j], a)}})

RECURSIVE SetEntries(_, _, _, _)
SetEntries(h, m, entries, i) ==
  IF i > Len(entries) THEN m
  ELSE The({SetEntries(h, m2, entries, i + 1) :
              m2 \in {The({SetKeys(m, ks, 1, entries[i].a) :
                              ks \in {makeEntityMapKeys(h, Get(h, entries[i], "sys"))}})}})

BuildEntityMap(h, entries) ==
  The({SetEntries(h, EmptyMap, es, 1) : es \in {entries}})

(***************************************************************************)
(* Frames of walkMutate: the object being iterated and the position of its *)
(* for...in loop (remaining keys of an object, next index of an array)     *)
(***************************************************************************)
NewFrame(h, a) ==
  [a |-> a,
   keys |-> IF h[a].kind = "obj" THEN OwnKeys(h[a]) ELSE <<>>,
   i |-> 1,
   n |-> IF h[a].kind = "arr" THEN Len(h[a].e) ELSE 0]

FrameDone(h, fr) == IF h[fr.a].kind = "arr" THEN fr.i > fr.n ELSE fr.keys = <<>>

\* Object.prototype.hasOwnProperty.call(input, key)
HasSlot(h, fr) ==
  IF h[fr.a].kind = "arr" THEN fr.i \in DOMAIN h[fr.a].e
  ELSE Head(fr.keys) \in DOMAIN h[fr.a].f

SlotValue(h, fr) ==
  IF h[fr.a].kind = "arr" THEN h[fr.a].e[fr.i] ELSE h[fr.a].f[Head(fr.keys)]

\* input[key] = v
SetSlot(h, fr, v) ==
  IF h[fr.a].kind = "arr" THEN [h EXCEPT ![fr.a].e[fr.i] = v]
  ELSE [h EXCEPT ![fr.a].f[Head(fr.keys)] = v]

Advance(h, fr) ==
  IF h[fr.a].kind = "arr" THEN [fr EXCEPT !.i = fr.i + 1]
  ELSE [fr EXCEPT !.keys = Tail(fr.keys)]

(***************************************************************************)
(* The responses the call is made with.                                    *)
(*   items    = [A, B]            A = Entry a, B = Entry b                  *)
(*   includes = { Entry: [C, D?] } C = Entry c in space S / environment     *)
(*                                 master, D = a second Entry c, unscoped   *)
(* A.fields = { ref, list[ListLen] }, A.metadata = { m, n },                *)
(* B.fields = { ref }, B.top and C.top are links held directly by a         *)
(* top-level field, C.sys.space / C.sys.environment are Link nodes as in a  *)
(* delivery payload.                                                        *)
(***************************************************************************)
Urn(tail) == Str(<<"crn", ":", "spaces", "/", "S", "/">> \o tail)

LinkSys(linkType, id) ==
  Obj("type" :> S("Link") @@ "linkType" :> S(linkType) @@ "id" :> S(id))

ResourceSys(urn) ==
  Obj("type" :> S("ResourceLink")
        @@ "linkType" :> Str(<<"Contentful", ":", "Entry">>) @@ "urn" :> urn)

\* the sys object of the link a slot choice stands for
ChoiceSys(ch) ==
  CASE ch = "La" -> LinkSys("Entry", "a")
    [] ch = "Lb" -> LinkSys("Entry", "b")
    [] ch = "Lc" -> LinkSys("Entry", "c")
    [] ch = "Lzz" -> LinkSys("Entry", "zz")
    [] ch = "Renv" -> ResourceSys(Urn(<<"environments", "/", "master", "/", "entries", "/", "c">>))
    [] ch = "Rnoenv" -> ResourceSys(Urn(<<"entries", "/", "c">>))
    [] ch = "Rzz" -> ResourceSys(Urn(<<"entries", "/", "zz">>))
    [] ch = "Rbad" -> ResourceSys(S("not-a-valid-urn"))
    [] ch = "Rnum" -> ResourceSys(Num(<<"42">>))
    [] ch = "Rnourn" -> Obj("type" :> S("ResourceLink")
                              @@ "linkType" :> Str(<<"Contentful", ":", "Entry">>))
    [] OTHER -> Obj("type" :> S("ResourceLink") @@ "urn" :> Urn(<<"entries", "/", "c">>))

NoObjects == [x \in {} |-> Obj(NoKeys)]

\* a slot holds a link node at addresses ad, ad + 1, or the string "text"
SlotVal(ad, ch) == IF ch = "text" THEN S("text") ELSE Ref(ad)

SlotObjs(ad, ch) ==
  IF ch = "text" THEN NoObjects
  ELSE (ad :> Obj("sys" :> Ref(ad + 1))) @@ (ad + 1 :> ChoiceSys(ch))

ListChoices ==
  <<"Lb", "Lzz", "Rbad", "Lc", "Renv", "Rnoenv", "Rnourn", "text", "Rnum", "Rzz", "Rnotype">>

\* the ListLen choices starting at position rot + 1 of the cyclic ListChoices
ListOf(rot) == [i \in 1..ListLen |-> ListChoices[((rot + i - 1) % Len(ListChoices)) + 1]]

\* address of the link node of element i of A.fields.list
ListSlot(i) == 16 + 2 * i

RECURSIVE ListObjs(_, _)
ListObjs(l, i) ==
  IF i > Len(l) THEN NoObjects
  ELSE SlotObjs(ListSlot(i), l[i]) @@ ListObjs(l, i + 1)

RecordA(aRef, l) ==
  (10 :> Obj("sys" :> Ref(11) @@ "fields" :> Ref(12) @@ "metadata" :> Ref(13)))
    @@ (11 :> Obj("type" :> S("Entry") @@ "id" :> S("a")))
    @@ (12 :> Obj("ref" :> SlotVal(14, aRef) @@ "list" :> Ref(16)))
    @@ (13 :> Obj("m" :> Ref(60) @@ "n" :> Ref(62)))
    @@ SlotObjs(14, aRef)
    @@ (16 :> Arr([i \in 1..Len(l) |-> SlotVal(ListSlot(i), l[i])]))
    @@ ListObjs(l, 1)
    @@ SlotObjs(60, "Lb") @@ SlotObjs(62, "Lzz")

RecordB(bRef, bTop) ==
  (30 :> Obj("sys" :> Ref(31) @@ "fields" :> Ref(32) @@ "top" :> SlotVal(36, bTop)))
    @@ (31 :> Obj("type" :> S("Entry") @@ "id" :> S("b")))
    @@ (32 :> Obj("ref" :> SlotVal(34, bRef)))
    @@ SlotObjs(34, bRef) @@ SlotObjs(36, bTop)

RecordC(cTop) ==
  (40 :> Obj("sys" :> Ref(41) @@ "fields" :> Ref(42) @@ "top" :> SlotVal(44, cTop)))
    @@ (41 :> Obj("type" :> S("Entry") @@ "id" :> S("c")
                    @@ "space" :> Ref(46) @@ "environment" :> Ref(48)))
    @@ (42 :> Obj("title" :> S("text")))
    @@ SlotObjs(44, cTop)
    @@ (46 :> Obj("sys" :> Ref(47))) @@ (47 :> LinkSys("Space", "S"))
    @@ (48 :> Obj("sys" :> Ref(49))) @@ (49 :> LinkSys("Environment", "master"))

RecordD ==
  (50 :> Obj("sys" :> Ref(51) @@ "fields" :> Ref(52)))
    @@ (51 :> Obj("type" :> S("Entry") @@ "id" :> S("c")))
    @@ (52 :> Obj("title" :> S("text")))

Sentinel == (SentinelAddr :> Obj(NoKeys))

FullResponse(aRef, bRef, cTop, rot, dup) ==
  Sentinel
    @@ (1 :> Obj("items" :> Ref(2) @@ "includes" :> Ref(3)))
    @@ (2 :> Arr(<<Ref(10), Ref(30)>>))
    @@ (3 :> Obj("Entry" :> Ref(4)))
    @@ (4 :> Arr(IF dup THEN <<Ref(40), Ref(50)>> ELSE <<Ref(40)>>))
    @@ RecordA(aRef, ListOf(rot)) @@ RecordB(bRef, cTop) @@ RecordC(cTop)
    @@ (IF dup THEN RecordD ELSE NoObjects)

\* { items } without includes
NoIncludesResponse(aRef) ==
  Sentinel
    @@ (1 :> Obj("items" :> Ref(2)))
    @@ (2 :> Arr(<<Ref(10), Ref(30)>>))
    @@ RecordA(aRef, ListOf(0)) @@ RecordB("La", "Lzz")

\* { items } whose second element is itself a link node
LinkItemResponse(ch) ==
  Sentinel
    @@ (1 :> Obj("items" :> Ref(2)))
    @@ (2 :> Arr(<<Ref(30), Ref(70)>>))
    @@ RecordB("Lc", "text") @@ SlotObjs(70, ch)

\* a response without items: {} or { includes }
NoItemsResponse(withIncludes) ==
  IF withIncludes
  THEN Sentinel @@ (1 :> Obj("includes" :> Ref(3))) @@ (3 :> Obj("Entry" :> Ref(4)))
         @@ (4 :> Arr(<<Ref(40)>>)) @@ RecordC("Lzz")
  ELSE Sentinel @@ (1 :> Obj(NoKeys))

Responses ==
  {FullResponse(aRef, bRef, cTop, rot, dup) :
     aRef \in {"La", "Lb", "Lzz"}, bRef \in {"La", "Lc"}, cTop \in {"La", "Lzz"},
     rot \in 0..(Len(ListChoices) - 1), dup \in BOOLEAN}
    \cup {NoIncludesResponse(aRef) : aRef \in {"Lb", "Lzz"}}
    \cup {LinkItemResponse(ch) : ch \in {"Lb", "Lzz"}}
    \cup {NoItemsResponse(w) : w \in BOOLEAN}

EntryPoints(names) == [isArray |-> TRUE, names |-> names]

NoEntryPoints == [isArray |-> FALSE, names |-> <<>>]

\* options: removeUnresolved absent counts as false; itemEntryPoints absent,
\* ['fields'] or ['top', 'nope']
OptionValues ==
  [removeUnresolved : BOOLEAN,
   itemEntryPoints : {NoEntryPoints, EntryPoints(<<"fields">>), EntryPoints(<<"top", "nope">>)}]

(***************************************************************************)
(* State machine                                                           *)
(***************************************************************************)
InitWith(h, o) ==
  /\ heap = h
  /\ orig = h
  /\ response = Ref(1)
  /\ options = o
  /\ pc = "start"
  /\ call = 1
  /\ responseClone = Undef
  /\ allEntries = <<>>
  /\ entityMap = EmptyMap
  /\ idx = 0
  /\ item = Undef
  /\ entryObject = Undef
  /\ stack = <<>>
  /\ result = Undef
  /\ firstResult = Undef

Init == \E h \in Responses, o \in OptionValues : InitWith(h, o)

Top == stack[Len(stack)]

\* resolveResponse up to the construction of entityMap
Enter ==
  /\ pc = "start"
  /\ IF ~Truthy(Get(heap, response, "items"))
     THEN /\ heap' = heap @@ (Fresh(heap) :> Arr(<<>>))
          /\ result' = Ref(Fresh(heap))
          /\ pc' = "done"
          /\ UNCHANGED <<responseClone, allEntries, entityMap, idx>>
     ELSE \E c \in {copy(heap, response)} :
            \E entries \in {AllEntriesOf(c.h, c.v)} :
              /\ heap' = c.h
              /\ responseClone' = c.v
              /\ allEntries' = entries
              /\ entityMap' = BuildEntityMap(c.h, entries)
              /\ idx' = 1
              /\ pc' = "loop"
              /\ UNCHANGED result
  /\ UNCHANGED <<orig, response, options, call, item, entryObject, stack, firstResult>>

\* variant: the predicate is not consulted, link nodes are iterated as objects
WalkKindNoPredicate(h, v) == IF IsObject(h, v) THEN "object" ELSE "leaf"

\* what walkMutate does with its input: hand it to the mutator when the
\* predicate holds, iterate it when it is a non-null object, return it otherwise
WalkKind(h, v) ==
  IF predicate(h, v) THEN "link"
  ELSE IF IsObject(h, v) THEN "object"
  ELSE "leaf"

\* one turn of allEntries.forEach begins: makeEntryObject, then the outermost
\* call of walkMutate
BeginTurn ==
  /\ pc = "loop"
  /\ idx <= Len(allEntries)
  /\ \E eo \in {makeEntryObject(heap, allEntries[idx], options.itemEntryPoints)} :
       /\ item' = allEntries[idx]
       /\ entryObject' = eo.v
       /\ IF WalkKind(eo.h, eo.v) = "link"
          THEN \E r \in {normalizeLink(eo.h, entityMap, eo.v, options.removeUnresolved)} :
                 IF r.threw
                 THEN /\ pc' = "raised"
                      /\ heap' = eo.h
                      /\ UNCHANGED <<idx, stack>>
                 ELSE /\ heap' = ObjectAssign(eo.h, allEntries[idx], r.v)
                      /\ idx' = idx + 1
                      /\ UNCHANGED <<pc, stack>>
          ELSE /\ heap' = eo.h
               /\ stack' = <<NewFrame(eo.h, eo.v.a)>>
               /\ pc' = "walk"
               /\ UNCHANGED idx
  /\ UNCHANGED <<orig, response, options, call, responseClone, allEntries,
                 entityMap, result, firstResult>>

\* one iteration of the for...in loop of the innermost walkMutate
WalkStep ==
  /\ pc = "walk"
  /\ stack # <<>>
  /\ ~FrameDone(heap, Top)
  /\ IF ~HasSlot(heap, Top)
     THEN /\ stack' = [stack EXCEPT ![Len(stack)] = Advance(heap, Top)]
          /\ UNCHANGED <<heap, pc>>
     ELSE \E kind \in {WalkKind(heap, SlotValue(heap, Top))} :
            IF kind = "link"
            THEN \E r \in {normalizeLink(heap, entityMap, SlotValue(heap, Top),
                                         options.removeUnresolved)} :
                   IF r.threw
                   THEN /\ pc' = "raised"
                        /\ UNCHANGED <<heap, stack>>
                   ELSE /\ heap' = SetSlot(heap, Top, r.v)
                        /\ stack' = [stack EXCEPT ![Len(stack)] = Advance(heap, Top)]
                        /\ UNCHANGED pc
            ELSE IF kind = "object"
            THEN IF Len(stack) >= MaxStack
                 THEN /\ pc' = "raised"
                      /\ UNCHANGED <<heap, stack>>
                 ELSE /\ stack' = Append(stack, NewFrame(heap, SlotValue(heap, Top).a))
                      /\ UNCHANGED <<heap, pc>>
            ELSE /\ stack' = [stack EXCEPT ![Len(stack)] = Advance(heap, Top)]
                 /\ UNCHANGED <<heap, pc>>
  /\ UNCHANGED <<orig, response, options, call, responseClone, allEntries,
                 entityMap, idx, item, entryObject, result, firstResult>>

\* the value the innermost walkMutate returns: cleanUpLinks(input) when
\* removeUnresolved, input otherwise
WalkResult(h, a, removeUnresolved) ==
  IF removeUnresolved THEN cleanUpLinks(h, a) ELSE [h |-> h, v |-> Ref(a)]

\* the innermost walkMutate finishes its loop and returns; then the caller's
\* input[key] = <returned value>, or Object.assign(item, <returned value>)
\* for the outermost call
WalkReturn ==
  /\ pc = "walk"
  /\ stack # <<>>
  /\ FrameDone(heap, Top)
  /\ \E c \in {WalkResult(heap, Top.a, options.removeUnresolved)} :
       IF Len(stack) > 1
       THEN /\ heap' = SetSlot(c.h, stack[Len(stack) - 1], c.v)
            /\ stack' = [SubSeq(stack, 1, Len(stack) - 1) EXCEPT
                           ![Len(stack) - 1] = Advance(c.h, stack[Len(stack) - 1])]
            /\ UNCHANGED <<pc, idx>>
       ELSE /\ heap' = ObjectAssign(c.h, item, c.v)
            /\ stack' = <<>>
            /\ idx' = idx + 1
            /\ pc' = "loop"
  /\ UNCHANGED <<orig, response, options, call, responseClone, allEntries,
                 entityMap, item, entryObject, result, firstResult>>

\* return responseClone.items
Finish ==
  /\ pc = "loop"
  /\ idx > Len(allEntries)
  /\ result' = Get(heap, responseClone, "items")
  /\ pc' = "done"
  /\ UNCHANGED <<heap, orig, response, options, call, responseClone, allEntries,
                 entityMap, idx, item, entryObject, stack, firstResult>>

Next == Enter \/ BeginTurn \/ WalkStep \/ WalkReturn \/ Finish

Spec == Init /\ [][Next]_vars

Done == pc = "done"

\* the caller passes the returned items back: resolveResponse({ items: result })
\* or resolveResponse({ items: result, includes: response.includes }), with
\* the same options
CallAgain ==
  /\ pc = "done"
  /\ call = 1
  /\ \E again \in {Obj("items" :> result),
                    Obj("items" :> result @@ "includes" :> Get(orig, Ref(1), "includes"))} :
       /\ heap' = heap @@ (Fresh(heap) :> again)
       /\ response' = Ref(Fresh(heap))
  /\ call' = 2
  /\ firstResult' = result
  /\ pc' = "start"
  /\ responseClone' = Undef
  /\ allEntries' = <<>>
  /\ entityMap' = EmptyMap
  /\ idx' = 0
  /\ item' = Undef
  /\ entryObject' = Undef
  /\ result' = Undef
  /\ UNCHANGED <<orig, options, stack>>

NextTwice == Next \/ CallAgain

SpecTwice == Init /\ [][NextTwice]_vars

(***************************************************************************)
(* Vocabulary of the properties: the caller's response `orig' as a tree,   *)
(* and where each of its places ends up in the result of the first call.   *)
(***************************************************************************)
\* the clone of the caller's object at address a lives at Cl(a)
Off == IF responseClone.t = "ref" THEN responseClone.a - response.a ELSE 0

Cl(a) == a + Off

\* the index has been built (the call did not return early)
Built == call = 1 /\ responseClone.t = "ref"

Returned == call = 1 /\ pc = "done" /\ responseClone.t = "ref"

HeapAt(a) == IF a \in DOMAIN heap THEN heap[a] ELSE Obj(NoKeys)

\* the records of items + includes of the caller's response, in order
OrigEntries == AllEntriesOf(orig, Ref(1))

OrigRecords == {OrigEntries[i].a : i \in DOMAIN OrigEntries}

\* children of the caller's object a that the walker would enter: objects
\* and arrays that are not link nodes
PlainChildren(a) == {c \in RefsOf(orig[a]) : ~predicate(orig, Ref(c))}

RECURSIVE Below(_)
Below(R) ==
  LET N == R \cup UNION {PlainChildren(a) : a \in R}
  IN  IF N = R THEN R ELSE Below(N)

\* a place of an object: key k of an object (i = 0), or index i of an array
KeySlot(c, k) == [c |-> c, k |-> k, i |-> 0]
IdxSlot(c, i) == [c |-> c, k |-> "", i |-> i]

SlotsOf(c) ==
  {KeySlot(c, k) : k \in DOMAIN orig[c].f} \cup {IdxSlot(c, i) : i \in DOMAIN orig[c].e}

OrigAt(s) == IF s.i = 0 THEN orig[s.c].f[s.k] ELSE orig[s.c].e[s.i]

\* every place of the field tree of record o (places inside a link node are
\* not places of the tree: a link is a leaf)
TreeSlots(o) == UNION {SlotsOf(c) : c \in Below({o})}

Listed(k) ==
  ~options.itemEntryPoints.isArray
    \/ \E j \in DOMAIN options.itemEntryPoints.names : options.itemEntryPoints.names[j] = k

\* the places of record o that the call scans for links
ScannedSlots(o) ==
  LET tops == {s \in SlotsOf(o) : Listed(s.k)}
      under == Below({OrigAt(s).a : s \in {s \in tops : OrigAt(s).t = "ref"
                                           /\ ~predicate(orig, OrigAt(s))}})
  IN  tops \cup UNION {SlotsOf(c) : c \in under}

LinkAt(s) == predicate(orig, OrigAt(s))

\* the lookup key a link asks for: linkType!id for a Link,
\* spaceId!environmentId!kind!entryId for a ResourceLink (no key when the urn
\* cannot be decoded)
KeyOfLink(l) ==
  LET sys == Get(orig, l, "sys")
      ids == getIdsFromUrn(Get(orig, sys, "urn"))
  IN  IF Get(orig, sys, "type") = S("Link")
      THEN Bang(<<ToStr(Get(orig, sys, "linkType")), ToStr(Get(orig, sys, "id"))>>)
      ELSE IF ids.ok
      THEN Bang(<<ids.spaceId.s, ids.environmentId.s,
                  ToStr(SecondOfSplit(Get(orig, sys, "linkType"))), ids.entryId.s>>)
      ELSE <<>>

Resolvable(l) == KeyOfLink(l) \in DOMAIN entityMap

UnresolvedAt(s) == LinkAt(s) /\ ~Resolvable(OrigAt(s))

ResolvableAt(s) == LinkAt(s) /\ Resolvable(OrigAt(s))

\* an element of a scanned array is dropped when removeUnresolved is set and it
\* is an unresolved link
Dropped(s) == options.removeUnresolved /\ UnresolvedAt(s)

NewIdx(s) == s.i - Cardinality({j \in 1..(s.i - 1) : Dropped(IdxSlot(s.c, j))})

AllSlots == UNION {TreeSlots(o) : o \in OrigRecords}

\* where the caller's container c is found in the result: an object is
\* rewritten in place; an array is whatever its holder now refers to
RECURSIVE FinalContainer(_)
FinalValueAt(s) ==
  LET o == HeapAt(FinalContainer(s.c))
  IN  IF s.i = 0
      THEN (IF s.k \in DOMAIN o.f THEN o.f[s.k] ELSE Undef)
      ELSE (IF NewIdx(s) \in DOMAIN o.e THEN o.e[NewIdx(s)] ELSE Undef)

FinalContainer(c) ==
  IF orig[c].kind = "obj" THEN Cl(c)
  ELSE LET holders == {s \in AllSlots : OrigAt(s) = Ref(c)}
       IN  IF holders = {} THEN Cl(c)
           ELSE LET v == FinalValueAt(CHOOSE s \in holders : TRUE)
                IN  IF v.t = "ref" THEN v.a ELSE -1

\* the clone of the caller's subtree at value v is exactly as copied
UntouchedClone(v) ==
  v.t = "ref" =>
    \A x \in Reach(orig, {v.a}) :
      Cl(x) \in DOMAIN heap /\ heap[Cl(x)] = ShiftObj(orig[x], Off)

(***************************************************************************)
(* C1: the caller's response is never written: every object of the         *)
(* caller's payload has, in every state of the call, the content it had    *)
(* before the call (also on the early return for a response without items).*)
(***************************************************************************)
CallerUnchanged ==
  \A a \in DOMAIN orig : a \in DOMAIN heap /\ heap[a] = orig[a]

\* the call has returned after rewriting a link of the clone
CallerUnchangedWitness ==
  /\ Returned
  /\ \E a \in DOMAIN orig \ {SentinelAddr} :
       Cl(a) \in DOMAIN heap /\ heap[Cl(a)] # ShiftObj(orig[a], Off)

ExpectedElem(v) ==
  IF predicate(orig, v) /\ Resolvable(v) THEN Ref(entityMap[KeyOfLink(v)])
  ELSE IF v.t = "ref" THEN Ref(FinalContainer(v.a))
  ELSE v

ExpectedElems(c) ==
  LET kept == SelectSeq([i \in DOMAIN orig[c].e |-> i],
                        LAMBDA i : ~Dropped(IdxSlot(c, i)))
  IN  [j \in DOMAIN kept |-> ExpectedElem(orig[c].e[kept[j]])]

PrunedAt(s) ==
  LET fc == FinalContainer(s.c)
  IN  /\ fc \in DOMAIN heap
      /\ IF s.i = 0 THEN s.k \notin DOMAIN heap[fc].f
         ELSE heap[fc].kind = "arr" /\ heap[fc].e = ExpectedElems(s.c)

UnresolvedPrunedEverywhere ==
  (Returned /\ options.removeUnresolved) =>
    \A o \in OrigRecords : \A s \in ScannedSlots(o) : UnresolvedAt(s) => PrunedAt(s)

(***************************************************************************)
(* C4: without removeUnresolved, every link whose target is not in the     *)
(* index (or whose urn cannot be decoded) is, in the result, the original  *)
(* link node at its original place, content unchanged; the array holding   *)
(* it keeps its length and order.                                          *)
(***************************************************************************)
UnresolvedLeftInPlace ==
  (Returned /\ ~options.removeUnresolved) =>
    \A o \in OrigRecords : \A s \in TreeSlots(o) :
      UnresolvedAt(s) =>
        /\ FinalContainer(s.c) = Cl(s.c)
        /\ FinalValueAt(s) = Ref(Cl(OrigAt(s).a))
        /\ UntouchedClone(OrigAt(s))
        /\ s.i > 0 => Len(HeapAt(Cl(s.c)).e) = Len(orig[s.c].e)

\* returned without removeUnresolved, with a scanned Link to a missing target
\* and a scanned ResourceLink with an undecodable urn, both inside an array
UnresolvedLeftInPlaceWitness ==
  /\ Returned
  /\ ~options.removeUnresolved
  /\ \E o \in OrigRecords : \E s, u \in ScannedSlots(o) :
       /\ s.i > 0 /\ u.i > 0
       /\ UnresolvedAt(s) /\ isLink(orig, OrigAt(s))
       /\ UnresolvedAt(u) /\ isResourceLink(orig, OrigAt(u)) /\ KeyOfLink(OrigAt(u)) = <<>>

(***************************************************************************)
(* C6: without itemEntryPoints, every link of the field tree of every      *)
(* record whose key is in the index has been replaced by the record object *)
(* the index holds under that key (the object itself, an element of the    *)
(* flat record list, not a copy), so links with the same key share one     *)
(* reference.                                                              *)
(***************************************************************************)
ResolvedTo(s) ==
  LET target == entityMap[KeyOfLink(OrigAt(s))]
  IN  /\ FinalValueAt(s) = Ref(target)
      /\ \E i \in DOMAIN allEntries : allEntries[i] = Ref(target)

ResolvedByReference ==
  (Returned /\ ~options.itemEntryPoints.isArray) =>
    \A o \in OrigRecords : \A s \in TreeSlots(o) : ResolvableAt(s) => ResolvedTo(s)

\* returned; a direct Link and a ResourceLink to the scoped record were both
\* resolved, and two different records hold a link with the same key
ResolvedByReferenceWitness ==
  /\ Returned
  /\ ~options.itemEntryPoints.isArray
  /\ \E s, u \in AllSlots :
       /\ ResolvableAt(s) /\ isLink(orig, OrigAt(s))
       /\ ResolvableAt(u) /\ isResourceLink(orig, OrigAt(u))
  /\ \E o, q \in OrigRecords : \E s \in TreeSlots(o), u \in TreeSlots(q) :
       /\ o # q
       /\ ResolvableAt(s) /\ ResolvableAt(u)
       /\ KeyOfLink(OrigAt(s)) = KeyOfLink(OrigAt(u))

(***************************************************************************)
(* C9: with itemEntryPoints a list of names, every record keeps exactly    *)
(* its top-level keys, each top-level field that is not listed is as it    *)
(* was cloned (links in it neither resolved nor pruned), and the           *)
(* resolutions made inside the listed fields are seen on the record.       *)
(***************************************************************************)
OnlyListedFieldsScanned ==
  (Returned /\ options.itemEntryPoints.isArray) =>
    \A o \in OrigRecords :
      /\ DOMAIN HeapAt(Cl(o)).f = DOMAIN orig[o].f
      /\ \A k \in DOMAIN orig[o].f :
           ~Listed(k) => /\ Get(heap, Ref(Cl(o)), k) = ShiftVal(orig[o].f[k], Off)
                         /\ UntouchedClone(orig[o].f[k])
      /\ \A s \in ScannedSlots(o) : ResolvableAt(s) => ResolvedTo(s)

\* returned with itemEntryPoints; a record has a resolvable link in a listed
\* field and one in a field that is not listed
OnlyListedFieldsScannedWitness ==
  /\ Returned
  /\ options.itemEntryPoints.isArray
  /\ \E o \in OrigRecords :
       /\ \E s \in ScannedSlots(o) : ResolvableAt(s)
       /\ \E s \in TreeSlots(o) \ ScannedSlots(o) : ResolvableAt(s)

(***************************************************************************)
(* C10 (as claimed): once the index is built, every record of              *)
(* items + includes is the value of the index under each of its keys       *)
(* (type!id, and space!environment!type!id when it carries both), also     *)
(* when two records have the same type and id.                             *)
(***************************************************************************)
\* the keys the caller's record o qualifies for
RecordKeys(o) ==
  LET sys == Get(orig, Ref(o), "sys")
      type == ToStr(Get(orig, sys, "type"))
      id == ToStr(Get(orig, sys, "id"))
      space == Get(orig, Get(orig, sys, "space"), "sys")
      env == Get(orig, Get(orig, sys, "environment"), "sys")
  IN  {Bang(<<type, id>>)}
        \cup (IF Truthy(space) /\ Truthy(env)
              THEN {Bang(<<ToStr(Get(orig, space, "id")), ToStr(Get(orig, env, "id")), type, id>>)}
              ELSE {})

EveryRecordIndexed ==
  Built =>
    \A i \in DOMAIN OrigEntries : \A key \in RecordKeys(OrigEntries[i].a) :
      key \in DOMAIN entityMap /\ entityMap[key] = Cl(OrigEntries[i].a)

(***************************************************************************)
(* C10 (amended): once the index is built, its keys are exactly the keys   *)
(* the records of items + includes qualify for, and each key maps to the   *)
(* LAST record, in items-then-includes order, that qualifies for it; a     *)
(* record is therefore found under each of its keys unless a later record  *)
(* qualifies for the same key.                                             *)
(***************************************************************************)
LastWith(key) ==
  Max({i \in DOMAIN OrigEntries : key \in RecordKeys(OrigEntries[i].a)})

IndexHoldsLastRecord ==
  Built =>
    /\ DOMAIN entityMap = UNION {RecordKeys(o) : o \in OrigRecords}
    /\ \A key \in DOMAIN entityMap : entityMap[key] = Cl(OrigEntries[LastWith(key)].a)

\* the index is built over two records with the same type and id, and over a
\* record that has a global and a scoped key
IndexHoldsLastRecordWitness ==
  /\ Built
  /\ \E i, j \in DOMAIN OrigEntries :
       i < j /\ RecordKeys(OrigEntries[i].a) \cap RecordKeys(OrigEntries[j].a) # {}
  /\ \E o \in OrigRecords : Cardinality(RecordKeys(o)) = 2

(***************************************************************************)
(* C8 (as claimed): the call never raises, whatever the response and the   *)
(* options.                                                                *)
(***************************************************************************)
NeverRaises == pc # "raised"

(***************************************************************************)
(* C5: the call terminates on every response, cyclic link graphs included; *)
(* the records are walked one after the other, each in one turn; a turn    *)
(* iterates only containers of its own record's field tree (never the      *)
(* record a link resolved to), so its recursion depth is at most the       *)
(* nesting depth of that tree; and after the pass every scanned link that  *)
(* lies on a cycle of records holds the record it points to.               *)
(***************************************************************************)
RECURSIVE DepthOf(_)
DepthOf(a) == 1 + Max({0} \cup {DepthOf(c) : c \in PlainChildren(a)})

OwnFrames ==
  (call = 1 /\ pc = "walk") =>
    /\ item = allEntries[idx]
    /\ Len(stack) <= DepthOf(item.a - Off)
    /\ \A i \in DOMAIN stack :
         stack[i].a \in {entryObject.a} \cup {Cl(c) : c \in Below({item.a - Off})}

\* the turns are taken in the order of the list, none twice
OneTurnEach ==
  /\ idx' # idx => idx' = idx + 1
  /\ (pc = "loop" /\ pc' = "walk") => item' = allEntries[idx]
  /\ (pc = "walk" /\ pc' = "walk") => item' = item

\* the record a resolvable link points to (as an address of the caller's payload)
TargetOf(s) == entityMap[KeyOfLink(OrigAt(s))] - Off

ScannedEdges(o) == {s \in ScannedSlots(o) : ResolvableAt(s)}

RECURSIVE ReachRecords(_)
ReachRecords(R) ==
  LET N == R \cup {TargetOf(s) : s \in UNION {ScannedEdges(o) : o \in R \cap OrigRecords}}
  IN  IF N = R THEN R ELSE ReachRecords(N)

OnCycle(o, s) == o \in ReachRecords({TargetOf(s)})

CyclesResolved ==
  Returned =>
    \A o \in OrigRecords : \A s \in ScannedEdges(o) :
      OnCycle(o, s) => FinalValueAt(s) = Ref(Cl(TargetOf(s)))

\* the call stack is never exhausted
NoOverflow == (call = 1 /\ pc = "raised") => Len(stack) < MaxStack

Halted == pc \in {"done", "raised"}

WalkTerminatesOnCycles ==
  /\ []OwnFrames
  /\ []NoOverflow
  /\ [][OneTurnEach]_vars
  /\ []CyclesResolved
  /\ <>Halted

\* returned from a response in which A links to B, B to C and C back to A
WalkTerminatesWitness ==
  /\ Returned
  /\ \E o \in OrigRecords : \E s \in ScannedEdges(o) :
       /\ OnCycle(o, s)
       /\ TargetOf(s) # o
       /\ \E u \in ScannedEdges(TargetOf(s)) : TargetOf(u) \notin {o, TargetOf(s)}
       /\ FinalValueAt(s) = Ref(Cl(TargetOf(s)))

\* the call is one straight-line synchronous computation: it always takes its
\* next step
LiveSpec == Spec /\ WF_vars(Next)

(***************************************************************************)
(* C7 (as claimed): resolving the returned items a second time, with the   *)
(* same includes or none and the same options, completes, and the items it *)
(* returns equal the first result (same keys, same values, same shape of   *)
(* references, cycles included): nothing further is replaced or removed.   *)
(***************************************************************************)
\* the pairs of objects found at the same place below the pair p
ChildPairs(p) ==
  LET x == HeapAt(p[1])
      y == HeapAt(p[2])
  IN  {<<x.f[k].a, y.f[k].a>> :
         k \in {k \in DOMAIN x.f \cap DOMAIN y.f : x.f[k].t = "ref" /\ y.f[k].t = "ref"}}
        \cup {<<x.e[i].a, y.e[i].a>> :
                i \in {i \in DOMAIN x.e \cap DOMAIN y.e : x.e[i].t = "ref" /\ y.e[i].t = "ref"}}

RECURSIVE PairsFrom(_)
PairsFrom(P) ==
  The({IF N = P THEN P ELSE PairsFrom(N) :
         N \in {P \cup UNION {ChildPairs(p) : p \in P}}})

SameValue(v, w) == v.t = w.t /\ (v.t # "ref" => v = w)

\* the two objects have the same keys (or length) and the same plain values
Alike(p) ==
  LET x == HeapAt(p[1])
      y == HeapAt(p[2])
  IN  /\ x.kind = y.kind
      /\ DOMAIN x.f = DOMAIN y.f
      /\ DOMAIN x.e = DOMAIN y.e
      /\ \A k \in DOMAIN x.f \cap DOMAIN y.f : SameValue(x.f[k], y.f[k])
      /\ \A i \in DOMAIN x.e \cap DOMAIN y.e : SameValue(x.e[i], y.e[i])

\* the graphs below a and b cannot be told apart
SameGraph(a, b) == \A p \in PairsFrom({<<a, b>>}) : Alike(p)

Idempotent ==
  (call = 2 /\ Halted) => (pc = "done" /\ SameGraph(firstResult.a, result.a))

====
